---- MODULE Spec2Model ----
(***************************************************************************)
(* Item status workflow of the ToT print-farm order system.                *)
(*                                                                         *)
(* The tables (orders, products, items, item_parts, status_history) are    *)
(* those of src/src/database/schema.sql.  The status sequence and the      *)
(* transition rules are those of src/PLAN.md, section 5.  The engine       *)
(* operations (AdvanceStatus, BatchAdvance, RequestReprint,                *)
(* MarkReprintComplete, ShipOrder) have no implementation in the source    *)
(* tree; they are modelled from section 4.1 of the specification.  Every   *)
(* operation is one better-sqlite3 transaction, hence one atomic step.     *)
(***************************************************************************)
EXTENDS Integers, Sequences, FiniteSets, TLC

VARIABLES
  status,         \* items.status, per item
  updated_at,     \* items.updated_at, as the number of UPDATEs of the row
  needs_reprint,  \* item_parts.needs_reprint, per item and attached part
  history,        \* status_history rows of each item, in append order
  is_archived,    \* orders.is_archived
  shipped_at,     \* orders.shipped_at (NULL until the order ships)
  result,         \* what the operation last called reported
  requests,       \* the updateStatus call of each client, and how far it is
  running,        \* the client whose transaction function is executing
  store,          \* the rows written by order entry
  forms,          \* the order form of each client, and how far its save is
  catalog,        \* the colors and parts tables with their AUTOINCREMENT counters
  import,         \* how far a run of the import-zeus script is
  board,          \* the orders shown on the boards, each with its item
  listing,        \* the rows the last listing returned
  templates       \* the product_templates and template_parts tables

vars ==
  <<status, updated_at, needs_reprint, history, is_archived, shipped_at, result,
    requests, running, store, forms, catalog, import, board, listing, templates>>

----------------------------------------------------------------------------
(* Bounds *)

\* Number of reprint resets the whole run may contain.
MaxReprints == 1

----------------------------------------------------------------------------
(* Stored data: the rows present after order entry *)

NULL == "NULL"

Orders == {1, 2}
Products == {1, 2, 3}
Items == {1, 2}
Parts == {1, 2}

\* products.order_id: order 1 owns products 1 and 2, order 2 owns product 3.
ProductOrder(p) == IF p \in {1, 2} THEN 1 ELSE 2

\* items.product_id: item 1 is the plate of product 1, item 2 that of
\* product 2; product 3 (and so order 2) has no item.
ItemProduct(i) == i

\* item_parts rows: parts 1 and 2 are attached to item 1, part 1 to item 2.
ItemParts(i) == IF i = 1 THEN {1, 2} ELSE {1}

ProductItems(p) == {i \in Items : ItemProduct(i) = p}

OrderItems(o) == {i \in Items : ProductOrder(ItemProduct(i)) = o}

----------------------------------------------------------------------------
(* Statuses *)

StatusSeq ==
  <<"In Queue", "In Printfarm", "Printed", "Assembled", "Packed", "Shipped">>

Statuses == {StatusSeq[k] : k \in 1..Len(StatusSeq)}

DefaultStatus == "In Queue"

\* Position of each status in the sequence.
RankOf == [s \in Statuses |-> CHOOSE k \in 1..Len(StatusSeq) : StatusSeq[k] = s]

Rank(s) == RankOf[s]

\* Mutation of isValidTransition: any later stage is accepted.
isValidTransitionSkipping(current, new) == Rank(new) > Rank(current)

\* Rule 1: forward only, no skipping.
isValidTransition(current, new) == Rank(new) = Rank(current) + 1

----------------------------------------------------------------------------
(* Audit log *)

CreatedReason == "created"
DefaultReason == "status advanced"
\* reason? of AdvanceStatus: NULL when the caller leaves it out.
AdvanceReasons == {NULL}
ReprintReasons == {"color mismatch"}

HistoryRow(old, new, reason) ==
  [old_status |-> old, new_status |-> new, reason |-> reason]

\* The value CURRENT_TIMESTAMP / NOW() stores; how late it is plays no part.
CurrentTimestamp == "CURRENT_TIMESTAMP"

IsReset(row) == row.old_status # NULL /\ row.new_status = DefaultStatus

\* Number of reset rows in the whole log.
ResetCount ==
  Cardinality(UNION {{<<i, k>> : k \in {j \in DOMAIN history[i] :
                                          IsReset(history[i][j])}} :
                       i \in Items})

\* The clients (two iPads) that call the server.
Clients == {"iPad 1", "iPad 2"}

\* No call in flight.
Idle ==
  [pc |-> "idle", kind |-> NULL, item |-> 0, target |-> NULL,
   shown |-> NULL, current |-> NULL]

\* No order entered yet.
EmptyStore ==
  [orders |-> <<>>, products |-> <<>>, items |-> <<>>,
   status_history |-> <<>>, item_parts |-> {}, item_colors |-> {}]

\* The order_number of a form that leaves the field empty.
Omitted == <<>>

\* No order form open.
NoForm ==
  [pc |-> "idle", number |-> Omitted, part |-> 0, color |-> 0,
   saved |-> EmptyStore]

\* The colors and parts tables of a new database.
EmptyCatalog == [colors |-> {}, parts |-> {}, color_seq |-> 0, part_seq |-> 0]

\* The typed errors of the engine, and "ok".
Outcomes ==
  {"ok", "InvalidTransition", "NoOpTransition", "UnknownPart", "NotReady",
   "NotFound", "DuplicateKey", "InactiveReference"}

----------------------------------------------------------------------------
(* Initial state: every item as order entry leaves it *)

\* product_templates and template_parts without rows.
EmptyTemplates == [rows |-> {}, parts |-> {}, seq |-> 0]

\* What the calls on product templates report besides the kinds above: a
\* request refused by validation, and a constraint of the schema other than
\* UNIQUE.
TemplateOutcomes == {"BadRequest", "ConstraintFailed"}

\* No listing was asked for yet.
NoListing == [status |-> NULL, rows |-> <<>>]

Init ==
  /\ status = [i \in Items |-> DefaultStatus]
  /\ updated_at = [i \in Items |-> 0]
  /\ needs_reprint = [i \in Items |-> [p \in ItemParts(i) |-> FALSE]]
  /\ history = [i \in Items |-> <<HistoryRow(NULL, DefaultStatus, CreatedReason)>>]
  /\ is_archived = [o \in Orders |-> FALSE]
  /\ shipped_at = [o \in Orders |-> NULL]
  /\ result = "none"
  /\ requests = [c \in Clients |-> Idle]
  /\ running = NULL
  /\ store = EmptyStore
  /\ forms = [c \in Clients |-> NoForm]
  /\ catalog = EmptyCatalog
  /\ import = "none"
  /\ board = <<>>
  /\ listing = NoListing
  /\ templates = EmptyTemplates

----------------------------------------------------------------------------
(* Operations of the workflow engine *)

data == <<status, updated_at, needs_reprint, history, is_archived, shipped_at>>

\* What an operation executed as one step leaves alone.
rest == <<requests, running, store, forms, catalog, import, board, listing, templates>>

\* The state of order entry and of the reference data.
entry == <<store, forms, catalog, import, board, listing, templates>>

\* Identifiers a caller may pass; AUTOINCREMENT keys start at 1, so 0 names
\* no row.
ItemIds == Items \cup {0}
OrderIds == Orders \cup {0}

EntireItem == [kind |-> "EntireItem", parts |-> {}]
PartScope(S) == [kind |-> "Parts", parts |-> S]
Scopes == {EntireItem} \cup {PartScope(S) : S \in SUBSET Parts}

\* Mutation of WithStatus: the UPDATE reaches one item of a batch only.
WithStatusOne(ids, T) ==
  [i \in Items |->
     IF ids # {} /\ i = (CHOOSE x \in ids : TRUE) THEN T ELSE status[i]]

\* UPDATE items SET status = T for the items of ids.
WithStatus(ids, T) == [i \in Items |-> IF i \in ids THEN T ELSE status[i]]

\* Mutation of Touched: updated_at is stamped on every item.
TouchedAll(ids) == [i \in Items |-> updated_at[i] + 1]

\* updated_at = CURRENT_TIMESTAMP on the rows an UPDATE of items reaches
\* (set by the statement and by the trigger update_items_timestamp).
Touched(ids) ==
  [i \in Items |-> IF i \in ids THEN updated_at[i] + 1 ELSE updated_at[i]]

\* Mutation of WithRows: old_status is written from the new status.
WithRowsOldFromNew(ids, T, reason) ==
  [i \in Items |->
     IF i \in ids THEN Append(history[i], HistoryRow(T, T, reason))
     ELSE history[i]]

\* Mutation of WithRows: the reason column is left out of the INSERT.
WithRowsNoReason(ids, T, reason) ==
  [i \in Items |->
     IF i \in ids THEN Append(history[i], HistoryRow(status[i], T, NULL))
     ELSE history[i]]

\* Mutation of WithRows: the INSERT is skipped.
WithRowsSkipped(ids, T, reason) == history

\* INSERT INTO status_history: one row for each item of ids, old_status
\* being the status read at the start of the transaction.
WithRows(ids, T, reason) ==
  [i \in Items |->
     IF i \in ids THEN Append(history[i], HistoryRow(status[i], T, reason))
     ELSE history[i]]

\* Mutation of IsItemPart: the part is looked up in parts, not item_parts.
IsItemPartAnyPart(itemId, partId) == partId \in Parts

\* (item_id, part_id) is a row of item_parts.
IsItemPart(itemId, partId) == partId \in ItemParts(itemId)

\* Mutation of FlagParts: the UPDATE has no item_id in its WHERE clause.
FlagPartsEverywhere(itemId, parts) ==
  [i \in Items |-> [p \in ItemParts(i) |-> (p \in parts) \/ needs_reprint[i][p]]]

\* Mutation of FlagParts: every part of the item is flagged.
FlagPartsAll(itemId, parts) ==
  [needs_reprint EXCEPT ![itemId] = [p \in ItemParts(itemId) |-> TRUE]]

\* Step 2 of the reprint workflow: needs_reprint = 1 on the selected parts.
FlagParts(itemId, parts) ==
  [needs_reprint EXCEPT ![itemId] =
     [p \in ItemParts(itemId) |-> (p \in parts) \/ @[p]]]

AdvanceStatus(itemId, targetStatus, reason) ==
  IF itemId \notin Items
  THEN /\ result' = "NotFound"
       /\ UNCHANGED data
  ELSE IF ~isValidTransition(status[itemId], targetStatus)
  THEN /\ result' = "InvalidTransition"
       /\ UNCHANGED data
  ELSE /\ result' = "ok"
       /\ status' = WithStatus({itemId}, targetStatus)
       /\ updated_at' = Touched({itemId})
       /\ history' = WithRows({itemId}, targetStatus,
                              IF reason = NULL THEN DefaultReason ELSE reason)
       /\ UNCHANGED <<needs_reprint, is_archived, shipped_at>>

BatchAdvance(itemIds, targetStatus) ==
  IF ~(itemIds \subseteq Items)
  THEN /\ result' = "NotFound"
       /\ UNCHANGED data
  ELSE IF \E i \in itemIds : ~isValidTransition(status[i], targetStatus)
  THEN /\ result' = "InvalidTransition"
       /\ UNCHANGED data
  ELSE /\ result' = "ok"
       /\ status' = WithStatus(itemIds, targetStatus)
       /\ updated_at' = Touched(itemIds)
       /\ history' = WithRows(itemIds, targetStatus, DefaultReason)
       /\ UNCHANGED <<needs_reprint, is_archived, shipped_at>>

RequestReprint(itemId, scope, reason) ==
  IF itemId \notin Items
  THEN /\ result' = "NotFound"
       /\ UNCHANGED data
  ELSE IF scope.kind = "Parts" /\ \E p \in scope.parts : ~IsItemPart(itemId, p)
  THEN /\ result' = "UnknownPart"
       /\ UNCHANGED data
  ELSE IF status[itemId] = DefaultStatus
  THEN /\ result' = "NoOpTransition"
       /\ UNCHANGED data
  ELSE /\ result' = "ok"
       /\ status' = WithStatus({itemId}, DefaultStatus)
       /\ updated_at' = Touched({itemId})
       /\ needs_reprint' = FlagParts(itemId, scope.parts)
       /\ history' = WithRows({itemId}, DefaultStatus, reason)
       /\ UNCHANGED <<is_archived, shipped_at>>
       /\ ResetCount < MaxReprints

\* Mutation of ClearParts: the flag of every part of the item is cleared.
ClearPartsAll(itemId, partIds) ==
  [needs_reprint EXCEPT ![itemId] = [p \in ItemParts(itemId) |-> FALSE]]

\* UPDATE item_parts SET needs_reprint = 0 on the rows (itemId, p), p among
\* partIds.
ClearParts(itemId, partIds) ==
  [needs_reprint EXCEPT ![itemId] =
     [p \in ItemParts(itemId) |-> @[p] /\ (p \notin partIds)]]

MarkReprintComplete(itemId, partIds) ==
  IF itemId \notin Items
  THEN /\ result' = "NotFound"
       /\ UNCHANGED data
  ELSE /\ result' = "ok"
       /\ needs_reprint' = ClearParts(itemId, partIds)
       /\ UNCHANGED <<status, updated_at, history, is_archived, shipped_at>>

\* items.every(item => item.status === 'Printed'); every() of an empty
\* array is true.
allItemsPrinted(items) == \A i \in items : status[i] = "Printed"

ProductReadyForAssembly(productId) == allItemsPrinted(ProductItems(productId))

\* Mutation of OrderReadyToPack: items past Assembled count as assembled.
OrderReadyToPackAtLeast(orderId) ==
  \A i \in OrderItems(orderId) : Rank(status[i]) >= Rank("Assembled")

\* "ready to pack" when ALL items are "Assembled": no item of the order
\* has another status.
OrderReadyToPack(orderId) ==
  {i \in OrderItems(orderId) : status[i] # "Assembled"} = {}

\* Mutation of OrderReadyToShip: one packed item is enough.
OrderReadyToShipSome(orderId) ==
  \E i \in OrderItems(orderId) : status[i] = "Packed"

\* Mutation of OrderReadyToShip: assembled items pass as well.
OrderReadyToShipEarly(orderId) ==
  \A i \in OrderItems(orderId) : status[i] \in {"Assembled", "Packed"}

OrderReadyToShip(orderId) ==
  \A i \in OrderItems(orderId) : status[i] = "Packed"

\* Mutation of Archived: every order is archived.
ArchivedAll(orderId) == [o \in Orders |-> TRUE]

\* "Ship Order" triggers archival: is_archived = 1 on the order shipped.
Archived(orderId) == [is_archived EXCEPT ![orderId] = TRUE]

ShipOrder(orderId) ==
  IF orderId \notin Orders
  THEN /\ result' = "NotFound"
       /\ UNCHANGED data
  ELSE IF ~OrderReadyToShip(orderId)
  THEN /\ result' = "NotReady"
       /\ UNCHANGED data
  ELSE /\ result' = "ok"
       /\ status' = WithStatus(OrderItems(orderId), "Shipped")
       /\ updated_at' = Touched(OrderItems(orderId))
       /\ history' = WithRows(OrderItems(orderId), "Shipped", DefaultReason)
       /\ is_archived' = Archived(orderId)
       /\ shipped_at' = [shipped_at EXCEPT ![orderId] = CurrentTimestamp]
       /\ UNCHANGED needs_reprint

----------------------------------------------------------------------------

Next ==
  \/ \E i \in ItemIds, T \in Statuses, r \in AdvanceReasons :
       AdvanceStatus(i, T, r) /\ UNCHANGED rest
  \/ \E ids \in SUBSET ItemIds, T \in Statuses :
       BatchAdvance(ids, T) /\ UNCHANGED rest
  \/ \E i \in ItemIds, sc \in Scopes, r \in ReprintReasons :
       RequestReprint(i, sc, r) /\ UNCHANGED rest
  \/ \E i \in ItemIds, ps \in SUBSET Parts :
       MarkReprintComplete(i, ps) /\ UNCHANGED rest
  \/ \E o \in OrderIds : ShipOrder(o) /\ UNCHANGED rest

Spec == Init /\ [][Next]_vars

TypeOK ==
  /\ status \in [Items -> Statuses]
  /\ updated_at \in [Items -> Nat]
  /\ \A i \in Items : needs_reprint[i] \in [ItemParts(i) -> BOOLEAN]
  /\ is_archived \in [Orders -> BOOLEAN]
  /\ shipped_at \in [Orders -> {NULL, CurrentTimestamp}]
  /\ result \in Outcomes \cup TemplateOutcomes \cup {"none"}
  /\ \A c \in Clients :
       /\ requests[c].pc \in {"idle", "issued", "read", "validated", "updated"}
       /\ requests[c].item \in ItemIds
  /\ running \in Clients \cup {NULL}
  /\ \A c \in Clients :
       forms[c].pc \in {"idle", "filled", "begun", "order", "items", "resolved"}
  /\ \A k \in DOMAIN store.items : store.items[k].status \in Statuses
  /\ \A r \in catalog.colors \cup catalog.parts : r.is_active \in BOOLEAN
  /\ import \in {"none", "opened", "colors cleared", "colors imported",
                  "parts cleared"}
  /\ \A r \in templates.rows : r.template_id \in 1..templates.seq

----------------------------------------------------------------------------
(* Properties *)

\* The stage that follows s in the sequence, NULL after the last one.
NextStatusOf ==
  [s \in Statuses |->
     IF Rank(s) < Len(StatusSeq) THEN StatusSeq[Rank(s) + 1] ELSE NULL]

NextStatus(s) == NextStatusOf[s]

LastRow(i) == history[i][Len(history[i])]

\* history'[i] is history[i] followed by exactly one row, from old to new.
OneRowAdded(i, old, new) ==
  /\ Len(history'[i]) = Len(history[i]) + 1
  /\ SubSeq(history'[i], 1, Len(history[i])) = history[i]
  /\ history'[i][Len(history'[i])].old_status = old
  /\ history'[i][Len(history'[i])].new_status = new

ResetSources == {"In Printfarm", "Printed", "Assembled", "Packed"}

AnyFlag(i) == \E p \in ItemParts(i) : needs_reprint[i][p]

\* C1: AdvanceStatus(item, T) succeeds if and only if T is the immediate
\* successor of the item's current status; with T equal to the current
\* status, earlier, more than one stage later, or the item already Shipped,
\* it fails with InvalidTransition.
AdvanceSucceedsIffSuccessor ==
  [][\A i \in Items, T \in Statuses, r \in AdvanceReasons :
       AdvanceStatus(i, T, r) =>
         IF T = NextStatus(status[i])
         THEN result' = "ok" /\ status'[i] = T
         ELSE result' = "InvalidTransition" /\ status' = status]_vars

\* Witness of C1: item 1 has been advanced stage by stage to Shipped and a
\* further advance has been refused.
AdvanceWitness ==
  /\ status[1] = "Shipped"
  /\ Len(history[1]) = Len(StatusSeq)
  /\ result = "InvalidTransition"

\* C2: the status_history rows of each item form a chain: the first row has
\* old_status NULL and new_status In Queue, each later row starts from the
\* previous row's new_status and changes it, and the last row ends at the
\* item's status.
HistoryChain ==
  \A i \in Items :
    /\ Len(history[i]) >= 1
    /\ history[i][1].old_status = NULL
    /\ history[i][1].new_status = DefaultStatus
    /\ \A k \in 2..Len(history[i]) :
         /\ history[i][k].old_status = history[i][k - 1].new_status
         /\ history[i][k].new_status # history[i][k].old_status
    /\ LastRow(i).new_status = status[i]

\* Witness of C2: item 1 went forward, was reset by a reprint and went
\* forward again, while item 2 was advanced at least twice.
HistoryChainWitness ==
  /\ \E k \in 2..Len(history[1]) : IsReset(history[1][k])
  /\ status[1] = "Printed"
  /\ Len(history[2]) > 2

\* C3: every status_history row with a non-null old_status is either a
\* one-stage forward move or a reset to In Queue out of In Printfarm,
\* Printed, Assembled or Packed; in particular there is no reset out of
\* Shipped.  RequestReprint resets a Shipped item, so this fails.
OnlyForwardOrReset ==
  \A i \in Items : \A k \in 1..Len(history[i]) :
    LET row == history[i][k] IN
      row.old_status # NULL =>
        \/ row.new_status = NextStatus(row.old_status)
        \/ row.new_status = DefaultStatus /\ row.old_status \in ResetSources

\* C4: BatchAdvance(itemIds, T) either finds every listed item at the
\* predecessor of T and moves them all to T with one new row each, or fails
\* with InvalidTransition and leaves status and history of every item as
\* they were.
BatchAllOrNothing ==
  [][\A ids \in SUBSET Items, T \in Statuses :
       BatchAdvance(ids, T) =>
         IF \A i \in ids : T = NextStatus(status[i])
         THEN /\ result' = "ok"
              /\ \A i \in ids :
                   status'[i] = T /\ OneRowAdded(i, status[i], T)
              /\ \A i \in Items \ ids :
                   status'[i] = status[i] /\ history'[i] = history[i]
         ELSE /\ result' = "InvalidTransition"
              /\ status' = status
              /\ history' = history]_vars

\* Witness of C4: a batch aimed at In Printfarm has been refused with item 1
\* In Queue and item 2 Printed, and item 1 is still where it was.
BatchWitness ==
  /\ result = "InvalidTransition"
  /\ status[1] = "In Queue"
  /\ Len(history[1]) = 1
  /\ status[2] = "Printed"

\* C5: ShipOrder(order) succeeds if and only if every item of the order is
\* Packed; on success every item of the order becomes Shipped with one new
\* row from Packed to Shipped, and the order is archived with shipped_at set.
ShipIffAllPacked ==
  [][\A o \in Orders :
       ShipOrder(o) =>
         IF \A i \in OrderItems(o) : status[i] = "Packed"
         THEN /\ result' = "ok"
              /\ \A i \in OrderItems(o) :
                   status'[i] = "Shipped" /\ OneRowAdded(i, "Packed", "Shipped")
              /\ is_archived'[o] = TRUE
              /\ shipped_at'[o] # NULL
         ELSE result' # "ok"]_vars

\* Witness of C5: order 1 has shipped, both its products' items are Shipped
\* by a row from Packed and the order is archived.
ShipWitness ==
  /\ result = "ok"
  /\ \A i \in OrderItems(1) :
       status[i] = "Shipped" /\ LastRow(i).old_status = "Packed"
  /\ is_archived[1]
  /\ shipped_at[1] # NULL

\* C6: ShipOrder(order) called while an item of the order is not Packed
\* fails with NotReady and changes no status, no row, no flag, and neither
\* is_archived nor shipped_at.
ShipNotReadyChangesNothing ==
  [][\A o \in Orders :
       (\E i \in OrderItems(o) : status[i] # "Packed") /\ ShipOrder(o) =>
         result' = "NotReady" /\ UNCHANGED data]_vars

\* Witness of C6: shipping has been refused with one item Packed and the
\* other still Assembled; nothing is shipped or archived.
ShipNotReadyWitness ==
  /\ result = "NotReady"
  /\ status[1] = "Packed"
  /\ status[2] = "Assembled"
  /\ ~is_archived[1]
  /\ shipped_at[1] = NULL

ReprintInQueueIsNoOp ==
  [][\A i \in Items, sc \in Scopes, r \in ReprintReasons :
       status[i] = DefaultStatus /\ RequestReprint(i, sc, r) =>
         result' = "NoOpTransition" /\ UNCHANGED data]_vars

\* C9, amended: RequestReprint of the entire item, or of parts that all
\* belong to the item, on an item In Queue reports NoOpTransition and
\* changes nothing; and no RequestReprint changes a needs_reprint flag of an
\* item without appending a row for that item in the same step.
ReprintInQueueIsNoOpKnownParts ==
  [][\A i \in Items, sc \in Scopes, r \in ReprintReasons :
       RequestReprint(i, sc, r) =>
         /\ status[i] = DefaultStatus /\ sc.parts \subseteq ItemParts(i) =>
              result' = "NoOpTransition" /\ UNCHANGED data
         /\ \A j \in Items :
              needs_reprint'[j] # needs_reprint[j] =>
                Len(history'[j]) = Len(history[j]) + 1]_vars

\* Witness of C9: item 1 is In Queue with part 1 already flagged and a
\* further reprint request has been answered NoOpTransition.
ReprintNoOpWitness ==
  /\ result = "NoOpTransition"
  /\ status[1] = DefaultStatus
  /\ needs_reprint[1][1]
  /\ Len(history[1]) = 4

\* C10: RequestReprint with a scope that names a part not attached to the
\* item fails with UnknownPart and changes nothing: no flag is set (not even
\* on the named parts that belong to the item), no status, no row.
UnknownPartChangesNothing ==
  [][\A i \in Items, S \in SUBSET Parts, r \in ReprintReasons :
       ~(S \subseteq ItemParts(i)) /\ RequestReprint(i, PartScope(S), r) =>
         result' = "UnknownPart" /\ UNCHANGED data]_vars

\* Witness of C10: a reprint of item 2 naming a part it does not have has
\* been refused while the item was Printed; its own part is not flagged.
UnknownPartWitness ==
  /\ result = "UnknownPart"
  /\ status[2] = "Printed"
  /\ ~AnyFlag(2)
  /\ Len(history[2]) = 3

(***************************************************************************)
(* The audit trail of single advances, with a reason given by the caller   *)
(***************************************************************************)

\* At most MaxSupplied rows of the log carry a reason given by a caller.
MaxSupplied == 1

SuppliedReasons == {"operator override"}

SuppliedCount ==
  Cardinality(UNION {{<<i, k>> : k \in {j \in DOMAIN history[i] :
                                          history[i][j].reason \in SuppliedReasons}} :
                       i \in Items})

NextAudit ==
  \/ \E i \in ItemIds, T \in Statuses, r \in AdvanceReasons \cup SuppliedReasons :
       /\ r \in SuppliedReasons => SuppliedCount < MaxSupplied
       /\ AdvanceStatus(i, T, r)
       /\ UNCHANGED rest
  \/ \E i \in ItemIds, r \in ReprintReasons :
       RequestReprint(i, PartScope({1}), r) /\ UNCHANGED rest
  \/ \E o \in OrderIds : ShipOrder(o) /\ UNCHANGED rest

SpecAudit == Init /\ [][NextAudit]_vars

RaceItems == {1}

\* Mutation of ServerFree: a transaction function may start while another
\* one is executing.
ServerFreeAlways == TRUE

\* better-sqlite3 is synchronous: a transaction function runs from BEGIN to
\* COMMIT before the server handles anything else.
ServerFree == running = NULL

\* A client taps a status change; shown is the status its view displays.
Issue(c, kind, i, T) ==
  /\ requests[c].pc = "idle"
  /\ kind = "reprint" => T = DefaultStatus
  /\ requests' = [requests EXCEPT ![c] =
       [pc |-> "issued", kind |-> kind, item |-> i, target |-> T,
        shown |-> status[i], current |-> NULL]]
  /\ UNCHANGED <<data, result, running>>

\* BEGIN and SELECT status FROM items WHERE item_id = ?
Select(c) ==
  /\ requests[c].pc = "issued"
  /\ ServerFree
  /\ requests[c].kind = "reprint" => ResetCount < MaxReprints
  /\ running' = c
  /\ requests' = [requests EXCEPT ![c].pc = "read",
                                  ![c].current = status[requests[c].item]]
  /\ UNCHANGED <<data, result>>

RequestValid(req) ==
  IF req.kind = "advance"
  THEN isValidTransition(req.current, req.target)
  ELSE req.current # DefaultStatus

\* if (!isValidTransition(current.status, newStatus)) throw: ROLLBACK
Validate(c) ==
  /\ requests[c].pc = "read"
  /\ IF RequestValid(requests[c])
     THEN /\ requests' = [requests EXCEPT ![c].pc = "validated"]
          /\ UNCHANGED <<result, running>>
     ELSE /\ requests' = [requests EXCEPT ![c] = Idle]
          /\ result' = (IF requests[c].kind = "advance"
                        THEN "InvalidTransition" ELSE "NoOpTransition")
          /\ running' = NULL
  /\ UNCHANGED data

\* UPDATE items SET status = ?, updated_at = CURRENT_TIMESTAMP
Update(c) ==
  /\ requests[c].pc = "validated"
  /\ status' = WithStatus({requests[c].item}, requests[c].target)
  /\ updated_at' = Touched({requests[c].item})
  /\ requests' = [requests EXCEPT ![c].pc = "updated"]
  /\ UNCHANGED <<needs_reprint, history, is_archived, shipped_at, result, running>>

\* INSERT INTO status_history (item_id, old_status, new_status), old_status
\* being current.status, and COMMIT
Insert(c) ==
  /\ requests[c].pc = "updated"
  /\ history' = [history EXCEPT ![requests[c].item] =
       Append(@, HistoryRow(requests[c].current, requests[c].target,
                            IF requests[c].kind = "advance"
                            THEN DefaultReason
                            ELSE CHOOSE r \in ReprintReasons : TRUE))]
  /\ requests' = [requests EXCEPT ![c] = Idle]
  /\ result' = "ok"
  /\ running' = NULL
  /\ UNCHANGED <<status, updated_at, needs_reprint, is_archived, shipped_at>>

NextRace ==
  \/ \E c \in Clients, i \in RaceItems, T \in Statuses :
       Issue(c, "advance", i, T) /\ UNCHANGED entry
  \/ \E c \in Clients, i \in RaceItems :
       Issue(c, "reprint", i, DefaultStatus) /\ UNCHANGED entry
  \/ \E c \in Clients : Select(c) /\ UNCHANGED entry
  \/ \E c \in Clients : Validate(c) /\ UNCHANGED entry
  \/ \E c \in Clients : Update(c) /\ UNCHANGED entry
  \/ \E c \in Clients : Insert(c) /\ UNCHANGED entry

SpecRace == Init /\ [][NextRace]_vars

InTransaction(c) == requests[c].pc \in {"read", "validated", "updated"}

\* C12: with two clients calling status changes on the same item in any
\* interleaving, at most one transaction is in progress at a time; a status
\* is written only by a call that read exactly the status it replaces and
\* validated the change against it; and each history row starts from the
\* latest row of the item, so no two rows start from the same occurrence
\* of a status.
RaceSerial ==
  [][/\ \A c, d \in Clients : InTransaction(c) /\ InTransaction(d) => c = d
     /\ \A i \in Items :
          /\ status'[i] # status[i] =>
               \E c \in Clients :
                 /\ requests[c].pc = "validated" /\ requests'[c].pc = "updated"
                 /\ requests[c].item = i
                 /\ requests[c].current = status[i]
                 /\ requests[c].target = status'[i]
                 /\ \/ isValidTransition(status[i], status'[i])
                    \/ /\ requests[c].kind = "reprint"
                       /\ status[i] # DefaultStatus
                       /\ status'[i] = DefaultStatus
          /\ history'[i] # history[i] =>
               OneRowAdded(i, LastRow(i).new_status, status[i])]_vars

\* Both clients asked for the same advance while their views showed the
\* predecessor; one call committed, and the other one has now read the new
\* status inside its own transaction.
RaceWitness ==
  \E c \in Clients :
    /\ requests[c].pc = "read"
    /\ requests[c].kind = "advance"
    /\ isValidTransition(requests[c].shown, requests[c].target)
    /\ requests[c].current = requests[c].target
    /\ LastRow(requests[c].item).old_status = requests[c].shown
    /\ LastRow(requests[c].item).new_status = requests[c].target

----------------------------------------------------------------------------
(* Archival *)

\* C13: is_archived of an order turns from false to true only in a
\* successful ShipOrder step for that order, and once true it is true in
\* every later state, whichever operations follow.
ArchivedOnlyByShip ==
  [][\A o \in Orders :
       /\ is_archived[o] => is_archived'[o]
       /\ ~is_archived[o] /\ is_archived'[o] =>
            /\ OrderReadyToShip(o)
            /\ ShipOrder(o)
            /\ result' = "ok"]_vars

\* An archived order one of whose items was sent back to the queue after
\* shipping, and a refused call after that.
ArchivedWitness ==
  /\ is_archived[1]
  /\ \E i \in OrderItems(1) : status[i] = "In Printfarm" /\ Len(history[i]) > 7
  /\ result = "NotReady"

----------------------------------------------------------------------------
(* Aggregate readiness *)

HasItems(p) == ProductItems(p) # {}

\* C14: ProductReadyForAssembly(product) is true if and only if the product
\* has at least one item and every one of its items is exactly Printed; it
\* is false for a product without items.
ReadyForAssemblyIffAllPrinted ==
  \A p \in Products :
    ProductReadyForAssembly(p) <=>
      (HasItems(p) /\ \A i \in ProductItems(p) : status[i] = "Printed")

ProductsOf(o) == {p \in Products : ProductOrder(p) = o}

\* C15: OrderReadyToPack(order) is true if and only if every item of every
\* product of the order is exactly Assembled; an item at any other status,
\* later ones included, makes it false.
ReadyToPackIffAllAssembled ==
  \A o \in Orders :
    OrderReadyToPack(o) <=>
      \A p \in ProductsOf(o) : \A i \in ProductItems(p) : status[i] = "Assembled"

\* Order 1 was ready to pack, then one of its items was packed: the order is
\* no longer ready while its other item is still Assembled.
ReadyToPackWitness ==
  /\ ~OrderReadyToPack(1)
  /\ status[1] = "Packed"
  /\ status[2] = "Assembled"

----------------------------------------------------------------------------
(* Completion of a reprint *)

\* C16: MarkReprintComplete(item, partIds) sets needs_reprint to false on
\* exactly the given parts of the item and changes nothing else: status,
\* updated_at and history of every item, the flags of the item's other
\* parts and of all other items, and the orders stay as they were.
MarkCompleteFrame ==
  [][\A i \in ItemIds, ps \in SUBSET Parts :
       MarkReprintComplete(i, ps) =>
         IF i \in Items
         THEN /\ result' = "ok"
              /\ \A p \in ItemParts(i) \cap ps : ~needs_reprint'[i][p]
              /\ \A p \in ItemParts(i) \ ps :
                   needs_reprint'[i][p] = needs_reprint[i][p]
              /\ \A j \in Items \ {i} : needs_reprint'[j] = needs_reprint[j]
              /\ UNCHANGED <<status, updated_at, history, is_archived, shipped_at>>
         ELSE /\ result' = "NotFound"
              /\ UNCHANGED data]_vars

\* Both parts of item 1 were flagged by one reprint and the flag of part 1
\* has been cleared since: part 2 is still flagged, the item is still in the
\* queue and its last row is still the reset row.
MarkCompleteWitness ==
  /\ result = "ok"
  /\ status[1] = DefaultStatus
  /\ IsReset(LastRow(1))
  /\ ~needs_reprint[1][1]
  /\ needs_reprint[1][2]

(***************************************************************************)
(* Order entry: the save of an order form, one statement each step         *)
(***************************************************************************)

\* Number of orders entered in a run.
MaxOrders == 4

\* An order_number is TEXT: the sequence of its characters.
DigitChars == <<"0", "1", "2", "3", "4", "5", "6", "7", "8", "9">>

IsDigit(ch) == \E d \in DOMAIN DigitChars : DigitChars[d] = ch

DigitValue(ch) == (CHOOSE d \in DOMAIN DigitChars : DigitChars[d] = ch) - 1

\* The text is the decimal writing of an integer.
IsNumeric(text) == text # <<>> /\ \A k \in DOMAIN text : IsDigit(text[k])

RECURSIVE ParseInt(_)
ParseInt(text) ==
  IF text = <<>> THEN 0
  ELSE ParseInt(SubSeq(text, 1, Len(text) - 1)) * 10 + DigitValue(text[Len(text)])

RECURSIVE ToText(_)
ToText(n) ==
  IF n < 10 THEN <<DigitChars[n + 1]>>
  ELSE Append(ToText(n \div 10), DigitChars[(n % 10) + 1])

RECURSIVE PadStart(_, _)
PadStart(text, width) ==
  IF Len(text) >= width THEN text ELSE PadStart(<<"0">> \o text, width)

\* system_settings: order_number_padding
order_number_padding == 3

OrderNumbers(st) == {st.orders[k].order_number : k \in DOMAIN st.orders}

\* Mutation of MaxNumeric: the number of orders stands for the maximum.
MaxNumericByCount(numbers) == Cardinality(numbers)

\* The largest integer among the order numbers that are integers, 0 without
\* any.
MaxNumeric(numbers) ==
  LET values == {ParseInt(t) : t \in {u \in numbers : IsNumeric(u)}} \cup {0}
  IN  CHOOSE m \in values : \A v \in values : v <= m

\* Zero-padded to order_number_padding digits; longer numbers as they are.
Rendered(n) == PadStart(ToText(n), order_number_padding)

NextOrderNumber(numbers) == Rendered(MaxNumeric(numbers) + 1)

\* The order numbers a user types in.
ManualNumbers ==
  {<<"0", "0", "7">>, <<"9", "9", "9">>, <<"C", "U", "S", "T", "O", "M", "-", "1">>}

\* The item slots of a form: one product with two items.
FormItems == {1, 2}

\* The parts a form may name; 0 is the id of no part.
FormParts == {1, 0}

\* Mutation of IsDuplicate: order_number is not declared UNIQUE.
IsDuplicateNever(number) == FALSE

\* orders.order_number UNIQUE
IsDuplicate(number) == number \in OrderNumbers(store)

\* Mutation of RolledBack: the statements already executed stay.
RolledBackNot(saved) == store

\* ROLLBACK: the rows are those of the start of the transaction.
RolledBack(saved) == saved

\* A user fills in the form: an order number, or none, and the part
\* of the items.
Fill(c, number, part) ==
  /\ forms[c].pc = "idle"
  /\ forms' = [forms EXCEPT ![c] =
       [pc |-> "filled", number |-> number, part |-> part, color |-> 0,
        saved |-> EmptyStore]]
  /\ UNCHANGED <<store, running, result>>

\* "Save order": BEGIN; the store computes the number the form omits.
BeginSave(c) ==
  /\ forms[c].pc = "filled"
  /\ ServerFree
  /\ Len(store.orders) < MaxOrders
  /\ running' = c
  /\ forms' = [forms EXCEPT
       ![c].pc = "begun",
       ![c].saved = store,
       ![c].number = IF forms[c].number = Omitted
                     THEN NextOrderNumber(OrderNumbers(store))
                     ELSE forms[c].number]
  /\ UNCHANGED <<store, result>>

\* INSERT INTO orders
InsertOrder(c) ==
  /\ forms[c].pc = "begun"
  /\ IF IsDuplicate(forms[c].number)
     THEN /\ store' = RolledBack(forms[c].saved)
          /\ forms' = [forms EXCEPT ![c] = NoForm]
          /\ result' = "DuplicateKey"
          /\ running' = NULL
     ELSE /\ store' = [store EXCEPT !.orders =
               Append(@, [order_number |-> forms[c].number])]
          /\ forms' = [forms EXCEPT ![c].pc = "order"]
          /\ UNCHANGED <<result, running>>

\* INSERT INTO products, INSERT INTO items (status by default 'In Queue'),
\* INSERT INTO status_history (the "created" row of each item)
InsertItems(c) ==
  /\ forms[c].pc = "order"
  /\ LET order_id == Len(store.orders)
         product_id == Len(store.products) + 1
         first == Len(store.items)
     IN  store' = [store EXCEPT
           !.products = Append(@, [order_id |-> order_id]),
           !.items = @ \o [k \in FormItems |->
                        [product_id |-> product_id, status |-> DefaultStatus]],
           !.status_history = @ \o [k \in FormItems |->
                        [item_id |-> first + k, old_status |-> NULL,
                         new_status |-> DefaultStatus, reason |-> CreatedReason]]]
  /\ forms' = [forms EXCEPT ![c].pc = "items"]
  /\ UNCHANGED <<result, running>>

\* INSERT INTO item_parts (FOREIGN KEY part_id REFERENCES parts), and COMMIT
InsertLinks(c) ==
  /\ forms[c].pc = "items"
  /\ IF forms[c].part \notin Parts
     THEN /\ store' = RolledBack(forms[c].saved)
          /\ result' = "NotFound"
     ELSE /\ store' = [store EXCEPT !.item_parts =
               @ \cup {<<Len(store.items) + 1 - k, forms[c].part>> : k \in FormItems}]
          /\ result' = "ok"
  /\ forms' = [forms EXCEPT ![c] = NoForm]
  /\ running' = NULL

untouched == <<data, requests, catalog, import, board, listing, templates>>

NextEntry ==
  \/ \E c \in Clients, n \in ManualNumbers \cup {Omitted}, p \in FormParts :
       Fill(c, n, p) /\ UNCHANGED untouched
  \/ \E c \in Clients : BeginSave(c) /\ UNCHANGED untouched
  \/ \E c \in Clients : InsertOrder(c) /\ UNCHANGED untouched
  \/ \E c \in Clients : InsertItems(c) /\ UNCHANGED untouched
  \/ \E c \in Clients : InsertLinks(c) /\ UNCHANGED untouched

SpecEntry == Init /\ [][NextEntry]_vars

ItemsOfOrder(st, o) ==
  {j \in DOMAIN st.items : st.products[st.items[j].product_id].order_id = o}

RowsOfItem(st, j) ==
  {k \in DOMAIN st.status_history : st.status_history[k].item_id = j}

\* C17: every item created by order entry has status In Queue and exactly
\* one status_history row, (NULL, In Queue, "created"); and outside a save
\* in progress every stored order has its product, all the items of its
\* form and their part associations: a save stores all of it or nothing.
EntryAtomic ==
  /\ \A j \in DOMAIN store.items :
       /\ store.items[j].status = "In Queue"
       /\ Cardinality(RowsOfItem(store, j)) = 1
       /\ \A k \in RowsOfItem(store, j) :
            /\ store.status_history[k].old_status = NULL
            /\ store.status_history[k].new_status = "In Queue"
            /\ store.status_history[k].reason = "created"
  /\ running = NULL =>
       /\ Len(store.products) = Len(store.orders)
       /\ \A o \in DOMAIN store.orders :
            /\ Cardinality(ItemsOfOrder(store, o)) = Cardinality(FormItems)
            /\ \A j \in ItemsOfOrder(store, o) :
                 \E p \in Parts : <<j, p>> \in store.item_parts

\* A save failed on its part associations after an earlier order was
\* stored: the store holds the earlier order only.
EntryWitness ==
  /\ result = "NotFound"
  /\ running = NULL
  /\ Len(store.orders) = 1
  /\ Len(store.items) = Cardinality(FormItems)

NumericValues(numbers) == {ParseInt(t) : t \in {u \in numbers : IsNumeric(u)}}

OrderNumbersDistinct ==
  [][/\ \A j, k \in DOMAIN store'.orders :
          store'.orders[j].order_number = store'.orders[k].order_number => j = k
     /\ \A c \in Clients :
          InsertOrder(c) =>
            IF forms[c].number \in OrderNumbers(store)
            THEN result' = "DuplicateKey" /\ store' = store
            ELSE /\ OrderNumbers(store') = OrderNumbers(store) \cup {forms[c].number}
                 /\ Len(store'.orders) = Len(store.orders) + 1]_vars

\* A typed number was refused as a duplicate; then both clients left the
\* number to the store, and the save of one is in progress while the form
\* of the other waits.
OrderNumbersWitness ==
  /\ result = "DuplicateKey"
  /\ \E c, d \in Clients :
       /\ forms[c].pc = "filled" /\ forms[c].number = Omitted
       /\ forms[d].pc = "order" /\ forms[d].number = <<"0", "0", "8">>

(***************************************************************************)
(* Reference data: the Color and Part models, and the import-zeus script   *)
(***************************************************************************)

\* Number of rows a table receives in a run.
MaxRecords == 3

ColorNames == {"Black", "White"}

PartInputs ==
  {[part_code |-> "WM16001", part_name |-> "Wall Mount"],
   [part_code |-> "TOK0025", part_name |-> "25mm Token"]}

\* The rows of the ZEUS database.
ZeusColors == {"Black"}
ZeusParts == {[part_code |-> "TOK0025", part_name |-> "25mm Token"]}

ColorIds == {r.color_id : r \in catalog.colors}
PartIds == {r.part_id : r \in catalog.parts}

\* Color.create: INSERT INTO colors (...) VALUES (..., 1); color_name is
\* UNIQUE.
Color_create(name) ==
  /\ catalog.color_seq < MaxRecords
  /\ IF \E r \in catalog.colors : r.color_name = name
     THEN result' = "DuplicateKey" /\ UNCHANGED catalog
     ELSE /\ catalog' = [catalog EXCEPT
               !.colors = @ \cup {[color_id |-> catalog.color_seq + 1,
                                   color_name |-> name, is_active |-> TRUE]},
               !.color_seq = @ + 1]
          /\ result' = "ok"
  /\ UNCHANGED import

\* Color.update: UPDATE colors SET color_name = ?, ... WHERE color_id = ?
Color_update(id, name) ==
  /\ IF id \notin ColorIds
     THEN result' = "NotFound" /\ UNCHANGED catalog
     ELSE IF \E r \in catalog.colors : r.color_name = name /\ r.color_id # id
     THEN result' = "DuplicateKey" /\ UNCHANGED catalog
     ELSE /\ catalog' = [catalog EXCEPT !.colors =
               {IF r.color_id = id THEN [r EXCEPT !.color_name = name] ELSE r :
                  r \in @}]
          /\ result' = "ok"
  /\ UNCHANGED import

\* UPDATE colors SET is_active = ? WHERE color_id = ?
ColorsWithActive(id, active) ==
  {IF r.color_id = id THEN [r EXCEPT !.is_active = active] ELSE r :
     r \in catalog.colors}

\* Color.deactivate
Color_deactivate(id) ==
  /\ catalog' = [catalog EXCEPT !.colors = ColorsWithActive(id, FALSE)]
  /\ result' = (IF id \in ColorIds THEN "ok" ELSE "NotFound")
  /\ UNCHANGED import

\* Color.activate
Color_activate(id) ==
  /\ catalog' = [catalog EXCEPT !.colors = ColorsWithActive(id, TRUE)]
  /\ result' = (IF id \in ColorIds THEN "ok" ELSE "NotFound")
  /\ UNCHANGED import

\* Part.create: INSERT INTO parts (...) VALUES (?, ?, ?, 1); part_code and
\* part_name are UNIQUE.
Part_create(partData) ==
  /\ catalog.part_seq < MaxRecords
  /\ IF \E r \in catalog.parts :
          r.part_code = partData.part_code \/ r.part_name = partData.part_name
     THEN result' = "DuplicateKey" /\ UNCHANGED catalog
     ELSE /\ catalog' = [catalog EXCEPT
               !.parts = @ \cup {[part_id |-> catalog.part_seq + 1,
                                  part_code |-> partData.part_code,
                                  part_name |-> partData.part_name,
                                  is_active |-> TRUE]},
               !.part_seq = @ + 1]
          /\ result' = "ok"
  /\ UNCHANGED import

\* What the update requests for parts carry: the data of a create, or the
\* code of one part with the name of the other.
PartRenames ==
  PartInputs \cup {[part_code |-> "WM16001", part_name |-> "25mm Token"]}

\* Mutation of Part_update: part_name is not UNIQUE.
Part_updateCodeOnly(partId, partData) ==
  /\ IF partId \notin PartIds
     THEN result' = "NotFound" /\ UNCHANGED catalog
     ELSE IF \E r \in catalog.parts :
               r.part_id # partId /\ r.part_code = partData.part_code
     THEN result' = "DuplicateKey" /\ UNCHANGED catalog
     ELSE /\ catalog' = [catalog EXCEPT !.parts =
               {IF r.part_id = partId
                THEN [r EXCEPT !.part_code = partData.part_code,
                               !.part_name = partData.part_name]
                ELSE r : r \in catalog.parts}]
          /\ result' = "ok"
  /\ UNCHANGED import

\* Part.update: UPDATE parts SET part_code = ?, part_name = ?, ... WHERE
\* part_id = ?
Part_update(partId, partData) ==
  /\ IF partId \notin PartIds
     THEN result' = "NotFound" /\ UNCHANGED catalog
     ELSE IF \E r \in catalog.parts :
               /\ r.part_id # partId
               /\ \/ r.part_code = partData.part_code
                  \/ r.part_name = partData.part_name
     THEN result' = "DuplicateKey" /\ UNCHANGED catalog
     ELSE /\ catalog' = [catalog EXCEPT !.parts =
               {IF r.part_id = partId
                THEN [r EXCEPT !.part_code = partData.part_code,
                               !.part_name = partData.part_name]
                ELSE r : r \in catalog.parts}]
          /\ result' = "ok"
  /\ UNCHANGED import

\* UPDATE parts SET is_active = ? WHERE part_id = ?
PartsWithActive(id, active) ==
  {IF r.part_id = id THEN [r EXCEPT !.is_active = active] ELSE r :
     r \in catalog.parts}

\* Part.deactivate
Part_deactivate(id) ==
  /\ catalog' = [catalog EXCEPT !.parts = PartsWithActive(id, FALSE)]
  /\ result' = (IF id \in PartIds THEN "ok" ELSE "NotFound")
  /\ UNCHANGED import

\* Part.activate
Part_activate(id) ==
  /\ catalog' = [catalog EXCEPT !.parts = PartsWithActive(id, TRUE)]
  /\ result' = (IF id \in PartIds THEN "ok" ELSE "NotFound")
  /\ UNCHANGED import

\* node src/database/import-zeus.js: both databases are opened.
openDatabases ==
  /\ import = "none"
  /\ import' = "opened"
  /\ UNCHANGED <<catalog, result>>

\* printfarmDb.prepare('DELETE FROM colors').run()
clearColors ==
  /\ import = "opened"
  /\ catalog' = [catalog EXCEPT !.colors = {}]
  /\ import' = "colors cleared"
  /\ UNCHANGED result

\* importColors(zeusColors): one INSERT for each color of ZEUS, in one
\* transaction.
importColors ==
  /\ import = "colors cleared"
  /\ catalog.color_seq + Cardinality(ZeusColors) <= MaxRecords
  /\ IF \E r \in catalog.colors : r.color_name \in ZeusColors
     THEN /\ UNCHANGED catalog
          /\ import' = "none"
     ELSE /\ catalog' = [catalog EXCEPT
               !.colors = @ \cup {[color_id |-> catalog.color_seq + 1,
                                   color_name |-> name, is_active |-> TRUE] :
                                    name \in ZeusColors},
               !.color_seq = @ + Cardinality(ZeusColors)]
          /\ import' = "colors imported"
  /\ UNCHANGED result

\* printfarmDb.prepare('DELETE FROM parts').run(); with foreign_keys = ON
\* the statement fails, and the script ends, when an item_parts row names a
\* part.
clearParts ==
  /\ import = "colors imported"
  /\ IF \E l \in store.item_parts : l[2] \in PartIds
     THEN import' = "none" /\ UNCHANGED catalog
     ELSE /\ catalog' = [catalog EXCEPT !.parts = {}]
          /\ import' = "parts cleared"
  /\ UNCHANGED result

\* importParts(zeusParts), then both databases are closed.
importParts ==
  /\ import = "parts cleared"
  /\ catalog.part_seq + Cardinality(ZeusParts) <= MaxRecords
  /\ IF \E r \in catalog.parts, d \in ZeusParts :
          r.part_code = d.part_code \/ r.part_name = d.part_name
     THEN UNCHANGED catalog
     ELSE catalog' = [catalog EXCEPT
            !.parts = @ \cup {[part_id |-> catalog.part_seq + 1,
                               part_code |-> d.part_code,
                               part_name |-> d.part_name,
                               is_active |-> TRUE] : d \in ZeusParts},
            !.part_seq = @ + Cardinality(ZeusParts)]
  /\ import' = "none"
  /\ UNCHANGED result

others == <<data, requests, running, store, forms, board, listing, templates>>

NextCatalog ==
  \/ \E name \in ColorNames : Color_create(name) /\ UNCHANGED others
  \/ \E id \in 1..MaxRecords, name \in ColorNames :
       Color_update(id, name) /\ UNCHANGED others
  \/ \E id \in 1..MaxRecords : Color_deactivate(id) /\ UNCHANGED others
  \/ \E id \in 1..MaxRecords : Color_activate(id) /\ UNCHANGED others
  \/ \E d \in PartInputs : Part_create(d) /\ UNCHANGED others
  \/ \E id \in 1..MaxRecords, d \in PartRenames :
       Part_update(id, d) /\ UNCHANGED others
  \/ \E id \in 1..MaxRecords : Part_deactivate(id) /\ UNCHANGED others
  \/ \E id \in 1..MaxRecords : Part_activate(id) /\ UNCHANGED others
  \/ openDatabases /\ UNCHANGED others
  \/ clearColors /\ UNCHANGED others
  \/ importColors /\ UNCHANGED others
  \/ clearParts /\ UNCHANGED others
  \/ importParts /\ UNCHANGED others

SpecCatalog == Init /\ [][NextCatalog]_vars

\* C20: a Color or Part record, once created, is never physically removed:
\* every color_id and part_id present in a state is present in the next
\* one, whichever operation runs.
RecordsNeverRemoved ==
  [][/\ \A r \in catalog.colors : \E q \in catalog'.colors : q.color_id = r.color_id
     /\ \A r \in catalog.parts : \E q \in catalog'.parts : q.part_id = r.part_id]_vars

(***************************************************************************)
(* Attaching colors and parts of the reference data to the items of an     *)
(* order                                                                   *)
(***************************************************************************)

\* Mutation of IsActivePart: a row with the id is enough (the FOREIGN KEY).
IsActivePartExists(id) == id \in PartIds

\* parts.is_active = 1 on the row with the id
IsActivePart(id) == \E r \in catalog.parts : r.part_id = id /\ r.is_active

\* colors.is_active = 1 on the row with the id
IsActiveColor(id) == \E r \in catalog.colors : r.color_id = id /\ r.is_active

\* A user fills in a form whose items name one part and one color; the
\* order number is left to the store.
FillRefs(c, part, color) ==
  /\ forms[c].pc = "idle"
  /\ forms' = [forms EXCEPT ![c] =
       [pc |-> "filled", number |-> Omitted, part |-> part, color |-> color,
        saved |-> EmptyStore]]
  /\ UNCHANGED <<store, running, result>>

\* The part and the color of the form are looked up; the save fails, and
\* rolls back, when one of them has no row or is deactivated.
ResolveRefs(c) ==
  /\ forms[c].pc = "items"
  /\ IF forms[c].part \notin PartIds \/ forms[c].color \notin ColorIds
     THEN /\ store' = RolledBack(forms[c].saved)
          /\ forms' = [forms EXCEPT ![c] = NoForm]
          /\ result' = "NotFound"
          /\ running' = NULL
     ELSE IF ~IsActivePart(forms[c].part) \/ ~IsActiveColor(forms[c].color)
     THEN /\ store' = RolledBack(forms[c].saved)
          /\ forms' = [forms EXCEPT ![c] = NoForm]
          /\ result' = "InactiveReference"
          /\ running' = NULL
     ELSE /\ forms' = [forms EXCEPT ![c].pc = "resolved"]
          /\ UNCHANGED <<store, result, running>>

\* INSERT INTO item_parts, INSERT INTO item_colors, and COMMIT
LinkRefs(c) ==
  /\ forms[c].pc = "resolved"
  /\ store' = [store EXCEPT
       !.item_parts =
          @ \cup {<<Len(store.items) + 1 - k, forms[c].part>> : k \in FormItems},
       !.item_colors =
          @ \cup {<<Len(store.items) + 1 - k, forms[c].color>> : k \in FormItems}]
  /\ forms' = [forms EXCEPT ![c] = NoForm]
  /\ result' = "ok"
  /\ running' = NULL

\* The ids a form may name.
RefIds == 1..2

aside == <<data, requests, board, listing, templates>>

\* The forms that are saved while the reference data changes.
AttachClients == {"iPad 1"}

NextAttach ==
  \/ \E d \in PartInputs : ServerFree /\ Part_create(d) /\ UNCHANGED others
  \/ \E id \in RefIds : ServerFree /\ Part_deactivate(id) /\ UNCHANGED others
  \/ \E name \in ColorNames : ServerFree /\ Color_create(name) /\ UNCHANGED others
  \/ \E id \in RefIds : ServerFree /\ Color_deactivate(id) /\ UNCHANGED others
  \/ \E c \in AttachClients, p \in RefIds, k \in RefIds :
       FillRefs(c, p, k) /\ UNCHANGED <<aside, catalog, import>>
  \/ \E c \in AttachClients : BeginSave(c) /\ UNCHANGED <<aside, catalog, import>>
  \/ \E c \in AttachClients : InsertOrder(c) /\ UNCHANGED <<aside, catalog, import>>
  \/ \E c \in AttachClients : InsertItems(c) /\ UNCHANGED <<aside, catalog, import>>
  \/ \E c \in AttachClients : ResolveRefs(c) /\ UNCHANGED <<aside, catalog, import>>
  \/ \E c \in AttachClients : LinkRefs(c) /\ UNCHANGED <<aside, catalog, import>>

SpecAttach == Init /\ [][NextAttach]_vars

MaxBoard == 3

\* orders.is_express is 0 or 1; ship-by dates, as day numbers.
ExpressFlags == {0, 1}
ShipDates == {1, 2}

\* The statuses the boards of the print farm list.
ListedStatuses == {"In Queue", "In Printfarm"}

\* Mutation of Precedes: the express flag is left out of the ORDER BY.
PrecedesByDate(a, b) == a.ship_by_date < b.ship_by_date

\* ORDER BY o.is_express DESC, o.ship_by_date ASC: row a must come before b
Precedes(a, b) ==
  \/ a.is_express > b.is_express
  \/ a.is_express = b.is_express /\ a.ship_by_date < b.ship_by_date

RECURSIVE InsertRow(_, _)
InsertRow(r, sorted) ==
  IF sorted = <<>> THEN <<r>>
  ELSE IF Precedes(r, Head(sorted)) THEN <<r>> \o sorted
  ELSE <<Head(sorted)>> \o InsertRow(r, Tail(sorted))

\* The rows in the order the ORDER BY clause gives them.
RECURSIVE OrderBy(_)
OrderBy(rows) ==
  IF rows = <<>> THEN <<>>
  ELSE InsertRow(rows[Len(rows)], OrderBy(SubSeq(rows, 1, Len(rows) - 1)))

\* FROM items i JOIN products p JOIN orders o: the row of item k
JoinedRow(k) ==
  [item_id |-> k, status |-> board[k].status,
   is_express |-> board[k].is_express, ship_by_date |-> board[k].ship_by_date]

\* WHERE i.status = s
Matching(s) == {k \in DOMAIN board : board[k].status = s}

\* The orders in which the scan of the table may meet the matching rows.
Scans(S) ==
  {q \in [1..Cardinality(S) -> S] : \A a, b \in DOMAIN q : a # b => q[a] # q[b]}

\* An order with one item is entered.
AddOrder(express, date) ==
  /\ Len(board) < MaxBoard
  /\ board' = Append(board,
       [is_express |-> express, ship_by_date |-> date, status |-> DefaultStatus])
  /\ UNCHANGED listing

\* The item of an order moves on to the print farm.
StartItem(k) ==
  /\ k \in DOMAIN board
  /\ isValidTransition(board[k].status, "In Printfarm")
  /\ board' = [board EXCEPT ![k].status = "In Printfarm"]
  /\ UNCHANGED listing

\* The query of a board.
ListItems(s) ==
  /\ \E scan \in Scans(Matching(s)) :
       listing' = [status |-> s,
                   rows |-> OrderBy([n \in DOMAIN scan |-> JoinedRow(scan[n])])]
  /\ UNCHANGED board

beside ==
  <<data, result, requests, running, store, forms, catalog, import, templates>>

NextListing ==
  \/ \E e \in ExpressFlags, d \in ShipDates : AddOrder(e, d) /\ UNCHANGED beside
  \/ \E k \in 1..MaxBoard : StartItem(k) /\ UNCHANGED beside
  \/ \E s \in ListedStatuses : ListItems(s) /\ UNCHANGED beside

SpecListing == Init /\ [][NextListing]_vars

\* C22: a listing of the items of one status is ordered by is_express
\* descending and then ship_by_date ascending (of two adjacent rows either
\* the first is express and the second is not, or both have the same flag
\* and the first ships no later), it holds exactly the items that have the
\* status, and asking for it changes nothing that is stored.
ListingOrdered ==
  [][\A s \in ListedStatuses : ListItems(s) =>
       /\ \A n \in 1..(Len(listing'.rows) - 1) :
            LET a == listing'.rows[n]
                b == listing'.rows[n + 1]
            IN \/ a.is_express = 1 /\ b.is_express = 0
               \/ a.is_express = b.is_express /\ a.ship_by_date <= b.ship_by_date
       /\ {listing'.rows[n].item_id : n \in DOMAIN listing'.rows}
            = {k \in DOMAIN board : board[k].status = s}
       /\ Len(listing'.rows) = Cardinality({k \in DOMAIN board : board[k].status = s})
       /\ \A n \in DOMAIN listing'.rows :
            /\ listing'.rows[n].status = s
            /\ listing'.rows[n].is_express = board[listing'.rows[n].item_id].is_express
            /\ listing'.rows[n].ship_by_date
                 = board[listing'.rows[n].item_id].ship_by_date
       /\ board' = board
       /\ UNCHANGED <<data, store, catalog>>]_vars

\* A listing of three rows: an express order that ships late stands before
\* two regular orders that ship earlier, and those stand by date.
ListingWitness ==
  /\ Len(listing.rows) = 3
  /\ listing.rows[1].is_express = 1 /\ listing.rows[1].ship_by_date = 2
  /\ listing.rows[2].is_express = 0 /\ listing.rows[2].ship_by_date = 1
  /\ listing.rows[3].is_express = 0 /\ listing.rows[3].ship_by_date = 2
  /\ listing.rows[1].item_id > listing.rows[3].item_id

\* The parts that item_parts rows of stored orders name; no stored order is
\* archived (orders.is_archived is 0 by default and only shipping sets it).
PartsInActiveOrders == {l[2] : l \in store.item_parts}

\* C23: deactivating a part that is attached to an item of an order that is
\* not archived is rejected and leaves is_active at 1.
DeactivateUsedPartRejected ==
  [][\A id \in RefIds :
       /\ id \in PartsInActiveOrders
       /\ \E r \in catalog.parts : r.part_id = id /\ r.is_active
       /\ Part_deactivate(id)
       => /\ result' # "ok"
          /\ \E r \in catalog'.parts : r.part_id = id /\ r.is_active]_vars

ArchivedIffAllShipped ==
  \A o \in Orders :
    OrderItems(o) # {} =>
      (is_archived[o] <=> \A i \in OrderItems(o) : status[i] = "Shipped")

\* C26: no item is Shipped, and no order archived, while a part of the item
\* has needs_reprint set.
NoShippedWhileFlagged ==
  \A i \in Items :
    AnyFlag(i) =>
      /\ status[i] # "Shipped"
      /\ \A o \in Orders : i \in OrderItems(o) => ~is_archived[o]

\* C27: an order without items is never ready to pack, never ready to ship
\* and never archived: ShipOrder on it fails with NotReady.
EmptyOrderNeverReady ==
  \A o \in Orders :
    OrderItems(o) = {} =>
      /\ ~OrderReadyToPack(o)
      /\ ~OrderReadyToShip(o)
      /\ ~is_archived[o]

(***************************************************************************)
(* Product templates: ProductTemplate.js and the template routes           *)
(***************************************************************************)

\* Templates the run may store.
MaxTemplates == 2

\* A field of a request body is either left out (Omitted) or <<value>>.
Given(field) == field[1]

TemplateNames == {"Box", "Lid", "Tray"}

\* Values a request gives for num_colors.
NumColorsInputs == {-1, 0, 1, 4, 5}

\* Mutation of NumColorsRange: the lower end of the CHECK is 0.
NumColorsRangeFromZero == 0..4

\* num_colors BETWEEN 1 AND 4
NumColorsRange == 1..4

\* The parts arrays of the requests; quantity 0 stands for a part object
\* without quantity.
PartLists ==
  {<<>>,
   <<[part_id |-> 1, quantity |-> 0]>>,
   <<[part_id |-> 1, quantity |-> 2], [part_id |-> 2, quantity |-> 0]>>,
   <<[part_id |-> 1, quantity |-> 0], [part_id |-> 1, quantity |-> 2]>>,
   <<[part_id |-> 2, quantity |-> 0], [part_id |-> 0, quantity |-> 0]>>}

\* Bodies of the create requests.
CreateInputs ==
  [template_name : {Omitted} \cup {<<n>> : n \in TemplateNames},
   num_colors : {Omitted} \cup {<<n>> : n \in NumColorsInputs},
   parts : PartLists]

\* Bodies of the update requests.
UpdateInputs ==
  [template_name : {Omitted} \cup {<<n>> : n \in TemplateNames},
   num_colors : {Omitted} \cup {<<n>> : n \in NumColorsInputs}]

\* Template ids a request may name; 0 is never stored.
TemplateIdInputs == 0..MaxTemplates

TemplateIds == {r.template_id : r \in templates.rows}

\* !value of JavaScript, for a field that is a number or left out
Falsy(field) == field = Omitted \/ Given(field) = 0

\* What a statement gives: the tables after it, or the error it throws with
\* the tables as they were before it.
Done(db) == [ok |-> TRUE, error |-> "ok", db |-> db]
Thrown(error, db) == [ok |-> FALSE, error |-> error, db |-> db]

\* INSERT INTO product_templates (...) VALUES (?, ?, ?, ?, ?, 1)
InsertTemplate(db, name, n) ==
  IF n \notin NumColorsRange THEN Thrown("ConstraintFailed", db)
  ELSE IF \E r \in db.rows : r.template_name = name
  THEN Thrown("DuplicateKey", db)
  ELSE Done([db EXCEPT
         !.rows = @ \cup {[template_id |-> db.seq + 1, template_name |-> name,
                           num_colors |-> n, is_active |-> TRUE]},
         !.seq = @ + 1])

\* INSERT INTO template_parts (template_id, part_id, quantity): the primary
\* key is (template_id, part_id), part_id references parts.
InsertTemplatePart(db, id, part) ==
  IF \E r \in db.parts : r.template_id = id /\ r.part_id = part.part_id
  THEN Thrown("DuplicateKey", db)
  ELSE IF part.part_id \notin PartIds THEN Thrown("ConstraintFailed", db)
  ELSE Done([db EXCEPT
         !.parts = @ \cup {[template_id |-> id, part_id |-> part.part_id,
                            quantity |-> IF part.quantity = 0 THEN 1
                                         ELSE part.quantity]}])

\* for (const part of parts) partStmt.run(...): stops at the first throw
RECURSIVE InsertTemplateParts(_, _, _)
InsertTemplateParts(db, id, parts) ==
  IF parts = <<>> THEN Done(db)
  ELSE LET first == InsertTemplatePart(db, id, Head(parts))
       IN  IF first.ok THEN InsertTemplateParts(first.db, id, Tail(parts))
           ELSE first

\* Mutation of Transaction: an exception leaves what was written so far.
TransactionNoRollback(before, outcome) == outcome.db

\* db.transaction(fn)(): COMMIT when fn returns, ROLLBACK when it throws
Transaction(before, outcome) == IF outcome.ok THEN outcome.db ELSE before

\* ProductTemplate.create
ProductTemplate_create(templateData) ==
  /\ templates.seq < MaxTemplates
  /\ IF templateData.template_name = Omitted
     THEN result' = "BadRequest" /\ UNCHANGED templates
     ELSE IF \/ Falsy(templateData.num_colors)
             \/ Given(templateData.num_colors) < 1
             \/ Given(templateData.num_colors) > 4
     THEN result' = "BadRequest" /\ UNCHANGED templates
     ELSE LET row == InsertTemplate(templates, Given(templateData.template_name),
                                    Given(templateData.num_colors))
              all == IF row.ok
                     THEN InsertTemplateParts(row.db, row.db.seq,
                                              templateData.parts)
                     ELSE row
          IN  /\ templates' = Transaction(templates, all)
              /\ result' = all.error

\* POST /admin/api/templates
PostTemplate(body) ==
  IF body.template_name = Omitted
  THEN result' = "BadRequest" /\ UNCHANGED templates
  ELSE IF \/ Falsy(body.num_colors)
          \/ Given(body.num_colors) < 1
          \/ Given(body.num_colors) > 4
  THEN result' = "BadRequest" /\ UNCHANGED templates
  ELSE ProductTemplate_create(body)

\* The row after SET field = ? for the fields the request holds.
UpdatedRow(r, updates) ==
  [r EXCEPT
     !.template_name = IF updates.template_name = Omitted THEN @
                       ELSE Given(updates.template_name),
     !.num_colors = IF updates.num_colors = Omitted THEN @
                    ELSE Given(updates.num_colors)]

\* ProductTemplate.update: UPDATE product_templates SET ... WHERE
\* template_id = ?
ProductTemplate_update(templateId, updates) ==
  IF updates.template_name = Omitted /\ updates.num_colors = Omitted
  THEN result' = "NotFound" /\ UNCHANGED templates
  ELSE IF templateId \notin TemplateIds
  THEN result' = "NotFound" /\ UNCHANGED templates
  ELSE LET old == CHOOSE r \in templates.rows : r.template_id = templateId
           new == UpdatedRow(old, updates)
       IN  IF new.num_colors \notin NumColorsRange
           THEN result' = "ConstraintFailed" /\ UNCHANGED templates
           ELSE IF \E r \in templates.rows \ {old} :
                     r.template_name = new.template_name
           THEN result' = "DuplicateKey" /\ UNCHANGED templates
           ELSE /\ templates' = [templates EXCEPT !.rows = (@ \ {old}) \cup {new}]
                /\ result' = "ok"

\* PUT /admin/api/templates/:id
PutTemplate(id, body) ==
  IF /\ ~Falsy(body.num_colors)
     /\ Given(body.num_colors) < 1 \/ Given(body.num_colors) > 4
  THEN result' = "BadRequest" /\ UNCHANGED templates
  ELSE ProductTemplate_update(id, body)

outside ==
  <<data, requests, running, store, forms, catalog, import, board, listing>>

NextTemplates ==
  \/ \E d \in PartInputs : Part_create(d) /\ UNCHANGED others
  \/ \E t \in CreateInputs : ProductTemplate_create(t) /\ UNCHANGED outside
  \/ \E t \in CreateInputs : PostTemplate(t) /\ UNCHANGED outside
  \/ \E id \in TemplateIdInputs, u \in UpdateInputs :
       ProductTemplate_update(id, u) /\ UNCHANGED outside
  \/ \E id \in TemplateIdInputs, u \in UpdateInputs :
       PutTemplate(id, u) /\ UNCHANGED outside

SpecTemplates == Init /\ [][NextTemplates]_vars

\* The part ids of a parts array.
ListedParts(parts) == {parts[k].part_id : k \in DOMAIN parts}

\* C28: ProductTemplate.create stores the product_templates row and all the
\* template_parts rows of the call, or nothing: when a part is unknown or
\* listed twice, or the template_name is taken, the call throws and the
\* tables are as before it.
CreateAtomic ==
  [][\A t \in CreateInputs : ProductTemplate_create(t) =>
       IF result' = "ok"
       THEN /\ \E r \in templates'.rows \ templates.rows :
                 /\ templates'.rows = templates.rows \cup {r}
                 /\ r.template_name = Given(t.template_name)
                 /\ {p.part_id : p \in {q \in templates'.parts :
                                          q.template_id = r.template_id}}
                      = ListedParts(t.parts)
            /\ templates.parts \subseteq templates'.parts
            /\ Cardinality(templates'.parts \ templates.parts) = Len(t.parts)
       ELSE /\ templates' = templates
            /\ \/ t.template_name = Omitted
               \/ Falsy(t.num_colors)
               \/ Given(t.num_colors) \notin 1..4
               \/ \E r \in templates.rows :
                    r.template_name = Given(t.template_name)
               \/ \E k \in DOMAIN t.parts : t.parts[k].part_id \notin PartIds
               \/ \E k, m \in DOMAIN t.parts :
                    k # m /\ t.parts[k].part_id = t.parts[m].part_id]_vars

\* A create whose second part is unknown was refused after one with two
\* parts was stored: the first template and its two rows are all there is.
CreateAtomicWitness ==
  /\ result = "ConstraintFailed"
  /\ Cardinality(PartIds) = 2
  /\ Cardinality(templates.rows) = 1
  /\ Cardinality(templates.parts) = 2
  /\ templates.seq = 1

NamesStayUnique ==
  [][/\ \A r, q \in catalog'.colors :
          r.color_name = q.color_name => r.color_id = q.color_id
     /\ \A r, q \in catalog'.parts :
          r.part_code = q.part_code \/ r.part_name = q.part_name
            => r.part_id = q.part_id
     /\ \A name \in ColorNames :
          Color_create(name) /\ (\E r \in catalog.colors : r.color_name = name)
            => result' = "DuplicateKey" /\ catalog' = catalog
     /\ \A id \in 1..MaxRecords, name \in ColorNames :
          /\ Color_update(id, name)
          /\ id \in ColorIds
          /\ \E r \in catalog.colors : r.color_name = name /\ r.color_id # id
          => result' = "DuplicateKey" /\ catalog' = catalog
     /\ \A d \in PartInputs :
          /\ Part_create(d)
          /\ \E r \in catalog.parts :
               r.part_code = d.part_code \/ r.part_name = d.part_name
          => result' = "DuplicateKey" /\ catalog' = catalog
     /\ \A id \in 1..MaxRecords, d \in PartRenames :
          /\ Part_update(id, d)
          /\ id \in PartIds
          /\ \E r \in catalog.parts :
               /\ r.part_id # id
               /\ r.part_code = d.part_code \/ r.part_name = d.part_name
          => result' = "DuplicateKey" /\ catalog' = catalog]_vars

\* The name "Black" is held by a deactivated color, the other color is still
\* "White", and the last request (to create or rename a color, there being
\* no parts) was refused as a duplicate.
NamesUniqueWitness ==
  /\ result = "DuplicateKey"
  /\ catalog.parts = {}
  /\ catalog.part_seq = 0
  /\ \E r \in catalog.colors : r.color_name = "Black" /\ ~r.is_active
  /\ \E r \in catalog.colors : r.color_name = "White" /\ r.is_active

====
